---- MODULE Spec2Model ----
(***************************************************************************)
(* tagger.py: the EXIF tagger of the Tadpoles tools.                       *)
(*                                                                         *)
(* Numbers.  A float is a record [k, neg, whole, frac]: k = "num" for a    *)
(* finite number of magnitude whole + frac/FracDen and sign neg (so -0.0   *)
(* is a value of its own), k = "nan" for float("nan").  FracDen is chosen  *)
(* so that a degree splits exactly into minutes and into fifths of the     *)
(* 10^-5 arc-second the code rounds to: no modelled value is a tie of that *)
(* rounding.                                                               *)
(***************************************************************************)
EXTENDS Integers, Sequences, FiniteSets, TLC

VARIABLES
    pc,         \* where the program is
    call,       \* the pure function under call and its arguments
    result,     \* what that call returned or raised
    argv,       \* the command line: --geo, --alt, --tags as typed, and the paths
    exists,     \* os.path.exists of the src, dest and logfile paths
    log,        \* the lines of the log file
    lineNo,     \* number of the line the for loop is at
    args,       \* the parsed command line
    req,        \* the arguments of the process_image call in progress
    exif_dict,  \* the container process_image assembles
    exif_bytes, \* the container as serialized
    srcFile,    \* the file at src/<outfile>
    destFile,   \* the file at dest/<outfile>
    fault,      \* which library call fails on these files
    err,        \* the exception that ended the run
    opened,     \* the log file has been opened
    calls,      \* the line numbers process_image was invoked for
    runs,       \* completed runs of the pipeline
    destHist,   \* the destination file at the start and as each run left it
    src0        \* the source file at the start

vars == <<pc, call, result, argv, exists, log, lineNo, args, req, exif_dict,
          exif_bytes, srcFile, destFile, fault, err, opened, calls, runs, destHist,
          src0>>

fnVars == <<call, result>>
runVars == <<argv, exists, log, lineNo, args, req, exif_dict, exif_bytes,
             srcFile, destFile, fault, err, opened, calls, runs, destHist, src0>>

\* None where a string is expected; a record with k = "none" elsewhere
None == "None"
Absent == [k |-> "none"]

\* ------------------------------------------------------------------ numbers
Digits == 5
SecScale == 10 ^ Digits
SubSec == 5 * SecScale
Fine == SubSec \div SecScale
MinUnits == 60 * SubSec
FracDen == 60 * MinUnits

Num(neg, whole, frac) == [k |-> "num", neg |-> neg, whole |-> whole, frac |-> frac]
NaN == [k |-> "nan", neg |-> FALSE, whole |-> 0, frac |-> 0]
NoNum == [k |-> "none", neg |-> FALSE, whole |-> 0, frac |-> 0]

\* value > n for an integer n >= 0 and value < n for an integer n <= 0; every
\* comparison with nan is false
Gt(v, n) == v.k = "num" /\ ~v.neg /\ (v.whole > n \/ (v.whole = n /\ v.frac > 0))
Lt(v, n) == v.k = "num" /\ v.neg /\ (v.whole > -n \/ (v.whole = -n /\ v.frac > 0))

\* float(x.strip()): a decimal literal with an optional sign, or "nan"
Float(tok) ==
    IF tok.lit = "nan" THEN NaN ELSE Num(tok.sign = "-", tok.whole, tok.frac)

RECURSIVE Gcd(_, _)
Gcd(a, b) == IF b = 0 THEN a ELSE Gcd(b, a % b)

Abs(n) == IF n < 0 THEN -n ELSE n

\* round(number): to the nearest integer, a half to the even one
Round(v) ==
    LET half == FracDen \div 2
        up == v.frac > half \/ (v.frac = half /\ v.whole % 2 = 1)
        mag == IF up THEN v.whole + 1 ELSE v.whole
    IN  IF v.neg THEN -mag ELSE mag

\* ------------------------------------------------------------------ to_deg
Raise(e) == [raised |-> e]
Raised(r) == DOMAIN r = {"raised"}

\* sec is in units of 10^-Digits arc-seconds
ToDeg(value, loc) ==
    IF value.k = "nan" THEN Raise("ValueError")
    ELSE
    LET loc_value == IF Lt(value, 0) THEN loc[1]
                     ELSE IF Gt(value, 0) THEN loc[2]
                     ELSE ""
        deg == value.whole
        min == value.frac \div MinUnits
        rest == value.frac % MinUnits
        sec == (rest + Fine \div 2) \div Fine
    IN  [deg |-> deg, min |-> min, sec |-> sec, loc |-> loc_value]

\* Fraction(str(number)): number is n/d with d a power of ten
ChangeToRational(n, d) ==
    LET g == Gcd(Abs(n), d) IN <<n \div g, d \div g>>

\* -------------------------------------------------------- create_gps_block
Put(f, key, v) == [x \in DOMAIN f \cup {key} |-> IF x = key THEN v ELSE f[x]]

Rationals(d) ==
    <<ChangeToRational(d.deg, 1), ChangeToRational(d.min, 1),
      ChangeToRational(d.sec, SecScale)>>

\* line 89, "if altitude:": false for None and for 0.0 and -0.0, true for nan
AltitudePresentMutant(altitude) == altitude.k # "none"
AltitudePresent(altitude) ==
    /\ altitude.k # "none"
    /\ ~(altitude.k = "num" /\ altitude.whole = 0 /\ altitude.frac = 0)

CreateGpsBlock(lat, lng, altitude) ==
    LET lat_deg == ToDeg(lat, <<"S", "N">>)
        lng_deg == ToDeg(lng, <<"W", "E">>)
        gps_ifd == [GPSVersionID |-> <<2, 0, 0, 0>>,
                    GPSAltitudeRef |-> 0,
                    GPSLatitudeRef |-> lat_deg.loc,
                    GPSLatitude |-> Rationals(lat_deg),
                    GPSLongitudeRef |-> lng_deg.loc,
                    GPSLongitude |-> Rationals(lng_deg)]
    IN  IF Raised(lat_deg) THEN lat_deg
        ELSE IF Raised(lng_deg) THEN lng_deg
        ELSE IF AltitudePresent(altitude)
             THEN IF altitude.k = "nan" THEN Raise("ValueError")
                  ELSE Put(gps_ifd, "GPSAltitude",
                           ChangeToRational(Round(altitude), 1))
        ELSE gps_ifd

\* -------------------------------------------------------------- parse_tags
\* tags is None or the text split at its commas, each part [pad, word]: the
\* word with blanks around it when pad; the empty text is one empty part
ParseTags(tags) ==
    IF tags.k = "none" \/ tags.parts = <<[pad |-> FALSE, word |-> ""]>> THEN <<>>
    ELSE [i \in 1..Len(tags.parts) |-> tags.parts[i].word]

\* ------------------------------------------------------------ parse_coords
\* geo is the text split at its commas; two parts unpack into lat, long
LatOutOfRange(lat) == Gt(lat, 90) \/ Lt(lat, -90)
LongOutOfRange(long) == Gt(long, 180) \/ Lt(long, -180)

ParseCoords(geo) ==
    IF Len(geo) # 2 THEN Raise("ValueError: unpack")
    ELSE LET lat == Float(geo[1])
             long == Float(geo[2])
         IN  IF LatOutOfRange(lat) THEN Raise("ValueError: latitude")
             ELSE IF LongOutOfRange(long) THEN Raise("ValueError: longitude")
             ELSE [k |-> "pair", lat |-> lat, long |-> long]

\* ----------------------------------------------------------- process_image
\* A container has the groups "0th", "Exif", "GPS" and "1st", each a map from
\* tag names to values.  A file is [k, data, exif]: k = "none" when there is
\* no file at the path, else the image data and the embedded container.
NoFile == [k |-> "none", data |-> "", exif |-> <<>>]
File(data, exif) == [k |-> "file", data |-> data, exif |-> exif]

\* timestamp.strftime("%Y:%m:%d %H:%M:%S"): the date and time fields, no zone
Strftime(timestamp) == timestamp.dt

\* int(tzoffset.total_seconds()): offsets are in milliseconds, int() truncates
\* towards zero
TotalSeconds(ms) == IF ms < 0 THEN -((-ms) \div 1000) ELSE ms \div 1000

\* ",".join(tags)
RECURSIVE Join(_)
Join(tags) ==
    IF Len(tags) = 0 THEN <<>>
    ELSE IF Len(tags) = 1 THEN <<tags[1]>>
    ELSE <<tags[1], ",">> \o Join(Tail(tags))

Utf16le(text) == [enc |-> "utf-16le", text |-> text]

\* lines 153-154
WithGpsMutant(d, gps) ==
    [d EXCEPT !["GPS"] = [x \in DOMAIN d["GPS"] \cup DOMAIN gps |->
                            IF x \in DOMAIN gps THEN gps[x] ELSE d["GPS"][x]]]
WithGps(d, gps) == [d EXCEPT !["GPS"] = gps]

\* lines 156-157
WithDesc(d, desc) ==
    IF desc # None /\ desc # ""
    THEN [d EXCEPT !["0th"] = Put(@, "ImageDescription", desc)]
    ELSE d

\* lines 159-168; tz.k is "naive" (no tzinfo), "null" (utcoffset() is None) or
\* "off" (an offset of tz.ms milliseconds)
WithTime(d, timestamp) ==
    IF timestamp.k = "none" THEN d
    ELSE LET exif_time == Strftime(timestamp)
             d1 == [d EXCEPT !["Exif"] = Put(@, "DateTimeOriginal", exif_time),
                             !["0th"] = Put(@, "DateTime", exif_time)]
         IN  IF timestamp.tz.k = "off" /\ timestamp.tz.ms # 0
             THEN [d1 EXCEPT !["1st"] =
                      Put(@, "TimeZoneOffset", TotalSeconds(timestamp.tz.ms))]
             ELSE d1

\* lines 170-173
WithTags(d, tags) ==
    IF tags.k = "list" /\ Len(tags.list) > 0
    THEN [d EXCEPT !["0th"] = Put(@, "XPKeywords", Utf16le(Join(tags.list)))]
    ELSE d

\* the run ends: with an exception (e # "none") or normally
End(e, dest) ==
    /\ pc' = IF e = "none" THEN "done" ELSE "error"
    /\ err' = e
    /\ runs' = runs + 1
    /\ destHist' = Append(destHist, dest)

\* line 150: shutil.copy2(src, dest)
Copy ==
    /\ pc = "copy"
    /\ IF srcFile.k = "none"
       THEN End("FileNotFoundError", destFile) /\ UNCHANGED destFile
       ELSE /\ destFile' = srcFile
            /\ pc' = "load"
            /\ UNCHANGED <<err, runs, destHist>>
    /\ UNCHANGED <<fnVars, argv, exists, log, lineNo, args, req, exif_dict,
                   exif_bytes, srcFile, src0, fault, opened, calls>>

\* line 151: piexif.load(src)
LoadMutant ==
    /\ pc = "load"
    /\ IF fault = "load"
       THEN /\ destFile' = NoFile
            /\ End("InvalidImageDataError", NoFile)
            /\ UNCHANGED exif_dict
       ELSE /\ exif_dict' = srcFile.exif
            /\ pc' = "assemble"
            /\ UNCHANGED <<destFile, err, runs, destHist>>
    /\ UNCHANGED <<fnVars, argv, exists, log, lineNo, args, req, exif_bytes,
                   srcFile, src0, fault, opened, calls>>
Load ==
    /\ pc = "load"
    /\ IF fault = "load"
       THEN End("InvalidImageDataError", destFile) /\ UNCHANGED exif_dict
       ELSE /\ exif_dict' = srcFile.exif
            /\ pc' = "assemble"
            /\ UNCHANGED <<err, runs, destHist>>
    /\ UNCHANGED <<fnVars, argv, exists, log, lineNo, args, req, exif_bytes,
                   srcFile, src0, destFile, fault, opened, calls>>

\* lines 153-173
Assemble ==
    /\ pc = "assemble"
    /\ LET gps == IF req.geo.k # "none"
                  THEN CreateGpsBlock(req.geo.lat, req.geo.long, req.altitude)
                  ELSE exif_dict["GPS"]
       IN  IF Raised(gps)
           THEN End(gps.raised, destFile) /\ UNCHANGED exif_dict
           ELSE /\ exif_dict' =
                       WithTags(WithTime(WithDesc(WithGps(exif_dict, gps),
                                req.desc), req.timestamp), req.tags)
                /\ pc' = "dump"
                /\ UNCHANGED <<err, runs, destHist>>
    /\ UNCHANGED <<fnVars, argv, exists, log, lineNo, args, req, exif_bytes,
                   srcFile, src0, destFile, fault, opened, calls>>

\* line 175: piexif.dump(exif_dict)
Dump ==
    /\ pc = "dump"
    /\ IF fault = "dump"
       THEN End("ValueError", destFile) /\ UNCHANGED exif_bytes
       ELSE /\ exif_bytes' = exif_dict
            /\ pc' = "insert"
            /\ UNCHANGED <<err, runs, destHist>>
    /\ UNCHANGED <<fnVars, argv, exists, log, lineNo, args, req, exif_dict,
                   srcFile, src0, destFile, fault, opened, calls>>

\* line 176: piexif.insert(exif_bytes, dest); process_image returns, and in
\* main the break of line 217 leaves the loop
InsertMutant ==
    /\ pc = "insert"
    /\ IF fault = "insert"
       THEN End("InvalidImageDataError", destFile) /\ UNCHANGED srcFile
       ELSE /\ srcFile' = [srcFile EXCEPT !.exif = exif_bytes]
            /\ End("none", destFile)
    /\ UNCHANGED <<fnVars, argv, exists, log, lineNo, args, req, exif_dict,
                   exif_bytes, destFile, src0, fault, opened, calls>>
Insert ==
    /\ pc = "insert"
    /\ IF fault = "insert"
       THEN End("InvalidImageDataError", destFile) /\ UNCHANGED destFile
       ELSE /\ destFile' = [destFile EXCEPT !.exif = exif_bytes]
            /\ End("none", destFile')
    /\ UNCHANGED <<fnVars, argv, exists, log, lineNo, args, req, exif_dict,
                   exif_bytes, srcFile, src0, fault, opened, calls>>

\* -------------------------------------------------------------------- main
\* A log line is [json, obj, has, date, description]: json when json.loads
\* accepts it, obj when the value is an object, has the keys the object has.
\* A date is [iso, dt, tz], tz the zone as written: [given, neg, h, m, s, ms].
OffsetMs(tz) ==
    LET mag == ((tz.h * 60 + tz.m) * 60 + tz.s) * 1000 + tz.ms
    IN  IF tz.neg THEN -mag ELSE mag

\* datetime.datetime.fromisoformat(logline["date"]), for a date it accepts.
\* A zone whose hours, minutes and seconds are all zero is timezone.utc,
\* whatever its fraction of a second: the offset is then 0.
FromIsoFormat(date) ==
    [k |-> "datetime", dt |-> date.dt,
     tz |-> IF ~date.tz.given THEN [k |-> "naive", ms |-> 0]
            ELSE IF date.tz.h = 0 /\ date.tz.m = 0 /\ date.tz.s = 0
                 THEN [k |-> "off", ms |-> 0]
            ELSE [k |-> "off", ms |-> OffsetMs(date.tz)]]

Fields == {"date", "outfile", "description"}

\* what lines 205-216 raise before process_image is entered, "none" if nothing
LineError(line) ==
    IF ~line.json THEN "JSONDecodeError"
    ELSE IF ~line.obj THEN "TypeError"
    ELSE IF "date" \notin line.has THEN "KeyError"
    ELSE IF ~line.date.iso THEN "ValueError"
    ELSE IF "outfile" \notin line.has THEN "KeyError"
    ELSE IF "description" \notin line.has THEN "KeyError"
    ELSE "none"

mainVars == <<fnVars, argv, exists, log, args, exif_dict, exif_bytes, srcFile,
              src0, destFile, fault>>

\* lines 238-260: argparse applies parse_coords, float and parse_tags to the
\* options given; a ValueError of parse_coords ends the process
ParseArgs ==
    /\ pc = "argparse"
    /\ LET geo == IF argv.geo.k = "none" THEN Absent
                  ELSE ParseCoords(argv.geo.parts)
       IN  IF Raised(geo)
           THEN End("argparse: " \o geo.raised, destFile) /\ UNCHANGED args
           ELSE /\ args' = [geo |-> geo,
                            alt |-> IF argv.alt.k = "none" THEN NoNum
                                    ELSE Float(argv.alt.tok),
                            tags |-> IF argv.tags.k = "none" THEN Absent
                                     ELSE [k |-> "list",
                                           list |-> ParseTags(argv.tags)]]
                /\ pc' = "main"
                /\ UNCHANGED <<err, runs, destHist>>
    /\ UNCHANGED <<fnVars, argv, exists, log, lineNo, req, exif_dict,
                   exif_bytes, srcFile, src0, destFile, fault, opened, calls>>

\* lines 195-200
CheckPaths ==
    /\ pc = "main"
    /\ IF ~exists.src THEN End("FileNotFoundError: src", destFile)
       ELSE IF ~exists.dest THEN End("FileNotFoundError: dest", destFile)
       ELSE IF ~exists.logfile THEN End("FileNotFoundError: logfile", destFile)
       ELSE pc' = "open" /\ UNCHANGED <<err, runs, destHist>>
    /\ UNCHANGED <<mainVars, lineNo, req, opened, calls>>

\* line 202
OpenLog ==
    /\ pc = "open"
    /\ opened' = TRUE
    /\ lineNo' = 1
    /\ pc' = "scan"
    /\ UNCHANGED <<mainVars, req, err, calls, runs, destHist>>

\* lines 203-205, 218-219: json.loads raises JSONDecodeError, the loop goes on
SkipLine ==
    /\ pc = "scan"
    /\ lineNo <= Len(log)
    /\ LineError(log[lineNo]) = "JSONDecodeError"
    /\ lineNo' = lineNo + 1
    /\ UNCHANGED <<mainVars, pc, req, err, opened, calls, runs, destHist>>

\* lines 205-211: any other exception leaves main
BadLine ==
    /\ pc = "scan"
    /\ lineNo <= Len(log)
    /\ LineError(log[lineNo]) \notin {"JSONDecodeError", "none"}
    /\ End(LineError(log[lineNo]), destFile)
    /\ UNCHANGED <<mainVars, lineNo, req, opened, calls>>

\* lines 206-216: the call of process_image
CallProcessImage ==
    /\ pc = "scan"
    /\ lineNo <= Len(log)
    /\ LineError(log[lineNo]) = "none"
    /\ req' = [desc |-> log[lineNo].description,
               timestamp |-> FromIsoFormat(log[lineNo].date),
               geo |-> args.geo, altitude |-> args.alt, tags |-> args.tags]
    /\ calls' = Append(calls, lineNo)
    /\ pc' = "copy"
    /\ UNCHANGED <<mainVars, lineNo, err, opened, runs, destHist>>

\* line 203: the file has no line left
EndOfLog ==
    /\ pc = "scan"
    /\ lineNo > Len(log)
    /\ End("none", destFile)
    /\ UNCHANGED <<mainVars, lineNo, req, opened, calls>>

\* ---------------------------------------------------------- inputs, bounds
MaxLines == 2
MaxRuns == 2
MaxAlt == 2
Near == 2
Edge == 1

\* fractions of a degree within Near units of a minute boundary, and 7'22.8".
\* The model computes exactly; the code computes in binary floating point, and
\* the two agree on every value here: a boundary that is no binary fraction of
\* a degree (any minute but 0, 15, 30, 45) is left out, its neighbours are in.
Fracs ==
    {f \in {m * MinUnits + d : m \in {0, 15, 30, 45, 60}, d \in (-Near)..Near}
            \cup {m * MinUnits + d : m \in {1, 59}, d \in ((-Near)..Near) \ {0}} :
        f >= 0 /\ f < FracDen}
    \cup {7 * MinUnits + 22 * SubSec + 8 * (SubSec \div 10)}

Degrees ==
    {Num(neg, w, f) : neg \in BOOLEAN, w \in {0, 1, 89, 90, 179}, f \in Fracs}
    \cup {Num(neg, 180, 0) : neg \in BOOLEAN}

Quarters == {0, FracDen \div 4, FracDen \div 2, 3 * (FracDen \div 4)}
Altitudes ==
    {Num(neg, w, f) : neg \in BOOLEAN, w \in 0..MaxAlt, f \in Quarters}
    \cup {Num(FALSE, 250, 0), NoNum, NaN}

Tok(sign, whole, frac) == [lit |-> "dec", sign |-> sign, whole |-> whole, frac |-> frac]
NanTok == [lit |-> "nan", sign |-> "", whole |-> 0, frac |-> 0]
TokensAt(n) ==
    {Tok(sg, w, f) : sg \in {"", "+", "-"}, w \in {0} \cup ((n - Edge)..(n + Edge)),
                     f \in {0, 1, FracDen - 1}}
    \cup {NanTok}

ToDegCalls ==
    {[fn |-> "to_deg", value |-> v, loc |-> l] :
        v \in Degrees, l \in {<<"S", "N">>, <<"W", "E">>}}
GpsCalls ==
    {[fn |-> "create_gps_block", lat |-> la, lng |-> lo, altitude |-> a] :
        la \in {Num(FALSE, 45, 0), Num(TRUE, 0, 1), Num(FALSE, 0, 0), NaN},
        lo \in {Num(TRUE, 93, 0), Num(FALSE, 0, 0), Num(FALSE, 179, FracDen - 1)},
        a \in Altitudes}
CoordCalls ==
    {[fn |-> "parse_coords", geo |-> <<la, lo>>] :
        la \in TokensAt(90), lo \in TokensAt(180)}
    \cup {[fn |-> "parse_coords", geo |-> g] :
            g \in {<<Tok("", 45, 0)>>, <<Tok("", 45, 0), Tok("", 0, 0), Tok("", 1, 0)>>}}

NoExif == [g \in {"0th", "Exif", "GPS", "1st"} |-> <<>>]
OldTime == <<2001, 1, 1, 0, 0, 0>>
OldExif ==
    [g \in {"0th", "Exif", "GPS", "1st"} |->
        CASE g = "0th" -> [ImageDescription |-> "old", DateTime |-> OldTime,
                           XPKeywords |-> Utf16le(<<"old">>), Make |-> "cam"]
          [] g = "Exif" -> [DateTimeOriginal |-> OldTime, ISOSpeed |-> 100]
          [] g = "GPS" -> Put(CreateGpsBlock(Num(FALSE, 1, 0), Num(FALSE, 2, 0),
                                             Num(FALSE, 10, 0)),
                              "GPSSpeed", <<3, 1>>)
          [] g = "1st" -> [TimeZoneOffset |-> 3600, Compression |-> 6]]

Zones ==
    {[given |-> FALSE, neg |-> FALSE, h |-> 0, m |-> 0, s |-> 0, ms |-> 0],
     [given |-> TRUE, neg |-> TRUE, h |-> 5, m |-> 0, s |-> 0, ms |-> 0],
     [given |-> TRUE, neg |-> FALSE, h |-> 0, m |-> 0, s |-> 0, ms |-> 0],
     [given |-> TRUE, neg |-> TRUE, h |-> 5, m |-> 30, s |-> 15, ms |-> 500],
     [given |-> TRUE, neg |-> FALSE, h |-> 0, m |-> 0, s |-> 0, ms |-> 999],
     [given |-> TRUE, neg |-> FALSE, h |-> 0, m |-> 0, s |-> 1, ms |-> 500]}
Stamp == <<2023, 6, 1, 10, 0, 0>>
Timestamps ==
    {FromIsoFormat([iso |-> TRUE, dt |-> Stamp, tz |-> z]) : z \in Zones}
    \cup {[k |-> "datetime", dt |-> Stamp, tz |-> [k |-> "null", ms |-> 0]],
          [k |-> "datetime", dt |-> Stamp, tz |-> [k |-> "off", ms |-> 999]],
          [k |-> "none", dt |-> <<>>, tz |-> [k |-> "naive", ms |-> 0]]}

TagLists ==
    {Absent, [k |-> "list", list |-> <<>>],
     [k |-> "list", list |-> <<"school", "daycare">>]}
Geos ==
    {Absent, [k |-> "pair", lat |-> Num(FALSE, 45, 0), long |-> Num(TRUE, 93, 0)],
     [k |-> "pair", lat |-> Num(FALSE, 0, 0), long |-> Num(FALSE, 0, 0)],
     [k |-> "pair", lat |-> NaN, long |-> Num(FALSE, 0, 0)]}

Requests ==
    [desc : {None, "", "Park"}, timestamp : Timestamps, geo : Geos,
     altitude : {NoNum, Num(FALSE, 0, 0), Num(FALSE, 250, 0)}, tags : TagLists]

SrcFiles == {File("pixels", NoExif), File("pixels", OldExif)}
DestFiles == {NoFile, File("stale", OldExif)}
Faults == {"none", "load", "dump", "insert"}

BadDate == [iso |-> FALSE, dt |-> <<>>, tz |-> CHOOSE z \in Zones : ~z.given]
GoodDates == {[iso |-> TRUE, dt |-> Stamp, tz |-> z] : z \in Zones}
Line(json, obj, has, date, description) ==
    [json |-> json, obj |-> obj, has |-> has, date |-> date,
     description |-> description]
Lines ==
    {Line(FALSE, FALSE, {}, BadDate, None), Line(TRUE, FALSE, {}, BadDate, None),
     Line(TRUE, TRUE, Fields, BadDate, "Park")}
    \cup {Line(TRUE, TRUE, Fields \ {f}, CHOOSE d \in GoodDates : ~d.tz.given, "Park") :
            f \in Fields}
    \cup {Line(TRUE, TRUE, Fields, d, "Park") : d \in GoodDates}

Logs == UNION {[1..n -> Lines] : n \in 0..MaxLines}

GeoArgs ==
    {Absent,
     [k |-> "str", parts |-> <<Tok("", 45, 0), Tok("-", 93, 0)>>],
     [k |-> "str", parts |-> <<Tok("", 90, 0), Tok("-", 180, 0)>>],
     [k |-> "str", parts |-> <<Tok("", 91, 0), Tok("", 0, 0)>>],
     [k |-> "str", parts |-> <<Tok("", 0, 0), Tok("", 181, 0)>>],
     [k |-> "str", parts |-> <<NanTok, Tok("", 0, 0)>>]}
AltArgs == {Absent, [k |-> "str", tok |-> Tok("", 250, 0)]}
TagArgs ==
    {Absent,
     [k |-> "str", parts |-> <<[pad |-> FALSE, word |-> "school"],
                               [pad |-> TRUE, word |-> "daycare"]>>]}

\* ------------------------------------------------------------- the machines
NoRun ==
    /\ argv = [geo |-> Absent, alt |-> Absent, tags |-> Absent]
    /\ exists = [p \in {"src", "dest", "logfile"} |-> TRUE]
    /\ log = <<>>
    /\ lineNo = 0
    /\ args = [geo |-> Absent, alt |-> NoNum, tags |-> Absent]
    /\ exif_dict = NoExif
    /\ exif_bytes = NoExif
    /\ err = "none"
    /\ opened = FALSE
    /\ calls = <<>>
    /\ runs = 0


\* the pure functions, each called once on an input
InitFn ==
    /\ pc = "call"
    /\ call \in ToDegCalls \cup GpsCalls \cup CoordCalls
    /\ result = Absent
    /\ NoRun
    /\ req = Absent
    /\ srcFile = NoFile
    /\ destFile = NoFile
    /\ fault = "none"
    /\ destHist = <<destFile>>
    /\ src0 = srcFile

CallToDeg ==
    /\ pc = "call"
    /\ call.fn = "to_deg"
    /\ result' = ToDeg(call.value, call.loc)
    /\ pc' = "returned"
    /\ UNCHANGED <<call, runVars>>

CallCreateGpsBlock ==
    /\ pc = "call"
    /\ call.fn = "create_gps_block"
    /\ result' = CreateGpsBlock(call.lat, call.lng, call.altitude)
    /\ pc' = "returned"
    /\ UNCHANGED <<call, runVars>>

CallParseCoords ==
    /\ pc = "call"
    /\ call.fn = "parse_coords"
    /\ result' = ParseCoords(call.geo)
    /\ pc' = "returned"
    /\ UNCHANGED <<call, runVars>>

NextFn == CallToDeg \/ CallCreateGpsBlock \/ CallParseCoords
SpecFn == InitFn /\ [][NextFn]_vars

\* process_image called on a request, and called again with the same request
InitImage ==
    /\ pc = "copy"
    /\ call = Absent
    /\ result = Absent
    /\ NoRun
    /\ req \in Requests
    /\ srcFile \in SrcFiles \cup {NoFile}
    /\ destFile \in DestFiles
    /\ fault \in Faults
    /\ destHist = <<destFile>>
    /\ src0 = srcFile

CallAgain ==
    /\ pc \in {"done", "error"}
    /\ runs < MaxRuns
    /\ pc' = "copy"
    /\ err' = "none"
    /\ exif_dict' = NoExif
    /\ exif_bytes' = NoExif
    /\ UNCHANGED <<fnVars, argv, exists, log, lineNo, args, req, srcFile,
                   src0, destFile, fault, opened, calls, runs, destHist>>

NextImage == Copy \/ Load \/ Assemble \/ Dump \/ Insert \/ CallAgain
SpecImage == InitImage /\ [][NextImage]_vars

\* the program run from its command line
Init ==
    /\ pc = "argparse"
    /\ call = Absent
    /\ result = Absent
    /\ argv \in [geo : GeoArgs, alt : AltArgs, tags : TagArgs]
    /\ exists \in [{"src", "dest", "logfile"} -> BOOLEAN]
    /\ log \in IF exists.logfile THEN Logs ELSE {<<>>}
    /\ lineNo = 0
    /\ args = [geo |-> Absent, alt |-> NoNum, tags |-> Absent]
    /\ req = Absent
    /\ exif_dict = NoExif
    /\ exif_bytes = NoExif
    /\ srcFile \in IF exists.src THEN SrcFiles \cup {NoFile} ELSE {NoFile}
    /\ destFile \in IF exists.dest THEN DestFiles ELSE {NoFile}
    /\ fault \in Faults
    /\ err = "none"
    /\ opened = FALSE
    /\ calls = <<>>
    /\ runs = 0
    /\ destHist = <<destFile>>
    /\ src0 = srcFile

Next ==
    \/ ParseArgs \/ CheckPaths \/ OpenLog
    \/ SkipLine \/ BadLine \/ CallProcessImage \/ EndOfLog
    \/ Copy \/ Load \/ Assemble \/ Dump \/ Insert
Spec == Init /\ [][Next]_vars

\* ------------------------------------------------------------- the claims
Ended == pc \in {"done", "error"}
JsonLines == {i \in 1..Len(log) : log[i].json}
FirstJsonLine == CHOOSE i \in JsonLines : \A j \in JsonLines : i <= j

\* C1: a run that passed the path checks over a log with a line that parses as
\* JSON has, when it ends, invoked process_image exactly once, for the first
\* such line.
C1_FirstJsonLineProcessedOnce ==
    (Ended /\ opened /\ JsonLines # {}) => calls = <<FirstJsonLine>>

\* C2: no log line ends the run with an error: a run that ended with an error
\* after it opened the log had entered process_image.
C2_MalformedLineNeverEndsRun ==
    (pc = "error" /\ opened) => calls # <<>>

\* v is a number of the interval [-n, n]
InInterval(v, n) == v.k = "num" /\ (v.whole < n \/ (v.whole = n /\ v.frac = 0))
GeoOutOfRange ==
    /\ argv.geo.k = "str"
    /\ Len(argv.geo.parts) = 2
    /\ \/ ~InInterval(Float(argv.geo.parts[1]), 90)
       \/ ~InInterval(Float(argv.geo.parts[2]), 180)
PathMissing == \E p \in DOMAIN exists : ~exists[p]

\* C3: when a path is missing or the --geo coordinates are out of range, the
\* log is never opened, process_image is never entered and the destination
\* file stays as it was, and the run ends with a file-not-found or range error.
C3_ConfigErrorsFailFast ==
    (PathMissing \/ GeoOutOfRange) =>
        /\ ~opened
        /\ calls = <<>>
        /\ destFile = destHist[1]
        /\ Ended => pc = "error"

\* C4: for v in [-180, 180], to_deg returns degree = floor(|v|), minute in
\* 0..59, second in [0, 60) after the rounding, and the hemisphere by the sign
\* of v, empty exactly for v = 0.
C4_ToDegInRange ==
    (pc = "returned" /\ call.fn = "to_deg") =>
        LET v == call.value
            zero == v.whole = 0 /\ v.frac = 0
        IN  /\ result.deg = v.whole
            /\ result.min \in 0..59
            /\ result.sec >= 0 /\ result.sec < 60 * SecScale
            /\ result.loc = IF zero THEN ""
                            ELSE IF v.neg THEN call.loc[1] ELSE call.loc[2]

\* an altitude is given and is not 0.0
NonZero(a) == a.k # "none" /\ ~(a.whole = 0 /\ a.frac = 0)

\* n is an integer nearest to the number v
Nearest(n, v) ==
    LET half == FracDen \div 2
        mag == Abs(n)
    IN  /\ n = IF v.neg THEN -mag ELSE mag
        /\ \/ mag = v.whole /\ v.frac <= half
           \/ mag = v.whole + 1 /\ v.frac >= half

\* C5: the block of create_gps_block has the altitude field exactly when an
\* altitude is given and is not 0.0, then with the value (n, 1), n the altitude
\* rounded to the nearest integer; the version, altitude reference (0),
\* latitude and longitude fields are in every block.
C5_AltitudeFieldIffNonZero ==
    (pc = "returned" /\ call.fn = "create_gps_block" /\ ~Raised(result)) =>
        LET a == call.altitude
            given == NonZero(a)
        IN  /\ ("GPSAltitude" \in DOMAIN result) <=> given
            /\ given => /\ result.GPSAltitude[2] = 1
                        /\ Nearest(result.GPSAltitude[1], a)
            /\ {"GPSVersionID", "GPSAltitudeRef", "GPSLatitudeRef", "GPSLatitude",
                "GPSLongitudeRef", "GPSLongitude"} \subseteq DOMAIN result
            /\ result.GPSAltitudeRef = 0

C5_Witness ==
    /\ pc = "returned"
    /\ call.fn = "create_gps_block"
    /\ call.altitude = Num(FALSE, 0, 0)
    /\ ~Raised(result)
    /\ "GPSAltitude" \notin DOMAIN result

\* the text of a coordinate names a number of [-n, n]
TokInInterval(tok, n) ==
    tok.lit = "dec" /\ (tok.whole < n \/ (tok.whole = n /\ tok.frac = 0))

\* C6: parse_coords accepts "lat,long" exactly when lat is in [-90, 90] and
\* long in [-180, 180], and then returns (lat, long); otherwise it fails with
\* a range error.
C6_AcceptsExactlyInRange ==
    (pc = "returned" /\ call.fn = "parse_coords" /\ Len(call.geo) = 2) =>
        IF TokInInterval(call.geo[1], 90) /\ TokInInterval(call.geo[2], 180)
        THEN /\ ~Raised(result)
             /\ result.lat = Float(call.geo[1])
             /\ result.long = Float(call.geo[2])
        ELSE /\ Raised(result)
             /\ result.raised \in {"ValueError: latitude", "ValueError: longitude"}

\* C7: a second run of the pipeline on the same source with the same inputs
\* leaves the destination file as the first run left it, and no run changes
\* the source file.
C7_Idempotent ==
    /\ srcFile = src0
    /\ \A i \in 3..Len(destHist) : destHist[i] = destHist[2]

C7_Witness ==
    /\ pc = "done"
    /\ runs = 2
    /\ req.desc = "Park"
    /\ destHist[1] # destHist[2]
    /\ destFile.exif["0th"].ImageDescription = "Park"

\* C8: after the assembly, the timezone-offset field holds the offset in whole
\* seconds for every timestamp with a zone and a non-null offset, an offset of
\* zero included, and is as in the source otherwise.
C8_ZoneOffsetWritten ==
    pc = "dump" =>
        IF req.timestamp.k = "datetime" /\ req.timestamp.tz.k = "off"
        THEN /\ "TimeZoneOffset" \in DOMAIN exif_dict["1st"]
             /\ exif_dict["1st"].TimeZoneOffset = TotalSeconds(req.timestamp.tz.ms)
        ELSE exif_dict["1st"] = srcFile.exif["1st"]

\* tag x of group g is the same in the containers c and d
Same(c, d, g, x) ==
    /\ (x \in DOMAIN c[g]) <=> (x \in DOMAIN d[g])
    /\ x \in DOMAIN c[g] => c[g][x] = d[g][x]

Named ==
    [g \in {"0th", "Exif", "GPS", "1st"} |->
        CASE g = "0th" -> {"ImageDescription", "DateTime", "XPKeywords"}
          [] g = "Exif" -> {"DateTimeOriginal"}
          [] g = "GPS" -> {}
          [] g = "1st" -> {"TimeZoneOffset"}]

\* C9: the assembly leaves the description as loaded when desc is absent or
\* empty, the three time fields when timestamp is absent, the keywords when
\* tags is absent or empty, the GPS group when geo is absent; with geo the GPS
\* group is the new block and no field of the old one survives; every other
\* field is as loaded.
C9_OnlyPresentInputsOverlay ==
    pc = "dump" =>
        LET base == srcFile.exif
            d == exif_dict
        IN  /\ req.desc \in {None, ""} => Same(base, d, "0th", "ImageDescription")
            /\ req.timestamp.k = "none" =>
                   /\ Same(base, d, "Exif", "DateTimeOriginal")
                   /\ Same(base, d, "0th", "DateTime")
                   /\ Same(base, d, "1st", "TimeZoneOffset")
            /\ (req.tags.k = "none" \/ req.tags.list = <<>>) =>
                   Same(base, d, "0th", "XPKeywords")
            /\ req.geo.k = "none" => d["GPS"] = base["GPS"]
            /\ req.geo.k # "none" =>
                   /\ DOMAIN d["GPS"] \subseteq
                          {"GPSVersionID", "GPSAltitudeRef", "GPSLatitudeRef",
                           "GPSLatitude", "GPSLongitudeRef", "GPSLongitude",
                           "GPSAltitude"}
                   /\ ~NonZero(req.altitude) => "GPSAltitude" \notin DOMAIN d["GPS"]
                   /\ d["GPS"].GPSLatitude[1][1] = req.geo.lat.whole
            /\ \A g \in {"0th", "Exif", "1st"} :
                   \A x \in (DOMAIN base[g] \cup DOMAIN d[g]) \ Named[g] :
                       Same(base, d, g, x)

C9_Witness ==
    /\ pc = "dump"
    /\ srcFile.exif = OldExif
    /\ req.geo.k = "pair"
    /\ req.altitude.k = "none"
    /\ req.desc = ""
    /\ req.timestamp.k = "none"
    /\ req.tags.k = "none"
    /\ "GPSSpeed" \notin DOMAIN exif_dict["GPS"]
    /\ exif_dict["0th"].ImageDescription = "old"

\* C10: the copy comes before the load, the assembly and the embedding, and
\* nothing undoes it: from the copy on, and when the run has ended with an
\* error raised after the copy, the destination is a copy of the source.
C10_FailureLeavesUntaggedCopy ==
    /\ pc \in {"load", "assemble", "dump", "insert"} => destFile = srcFile
    /\ (pc = "error" /\ err # "FileNotFoundError") =>
           destFile.k = "file" /\ destFile = srcFile

C10_Witness ==
    /\ pc = "error"
    /\ err = "InvalidImageDataError"
    /\ fault = "load"
    /\ destHist[1].k = "file"
    /\ destHist[1].data # srcFile.data
    /\ destFile = srcFile

====
